---- MODULE Spec2Model ----
(***************************************************************************)
(* Ticket API (index.js): an Express service that keeps its tickets in one *)
(* JSON file, tickets.json.  Every route handler is synchronous: it uses   *)
(* fs.readFileSync / fs.writeFileSync and never awaits, so Node runs each  *)
(* handler to completion before it dispatches the next request.  One       *)
(* handler is therefore one action here.  What can cut a handler short is  *)
(* the death of the process, and what can make its file calls throw is the *)
(* condition of the disk; both are modelled.                               *)
(***************************************************************************)
EXTENDS Naturals, Sequences, FiniteSets

VARIABLES
    up,          \* the process is running and app.listen has been reached
    disk,        \* condition of the storage that holds tickets.json
    fileExists,  \* fs.existsSync(ticketsFile)
    fileData,    \* the text of tickets.json, a sequence of JSON tokens
    inflight,    \* requests received and not yet dispatched to a handler
    acked,       \* tickets returned to clients with a 201, in response order
    last         \* what the latest step did: the request, the response, the fs calls

vars == <<up, disk, fileExists, fileData, inflight, acked, last>>

----------------------------------------------------------------------------
(* Bounds of the model. *)

\* creates answered in one behaviour
MaxTickets == 2
\* requests waiting for the event loop at one time
MaxInflight == 2

----------------------------------------------------------------------------
(* JavaScript values a JSON body can give to title and description. *)

Undefined == [t |-> "undefined", s |-> ""]
Null == [t |-> "null", s |-> ""]
Str(x) == [t |-> "string", s |-> x]

TitleValues == {Undefined, Null, Str(""), Str("a"), Str("b")}
DescriptionValues == {Undefined, Null, Str(""), Str("d")}

\* the values uuidv4() may return, and the text of new Date().toISOString();
\* no handler branches on either
UUIDs == {"u1", "u2"}
Instants == {"t1"}

\* `!v` on such a value
FalsyLoose(v) == v.t = "undefined"
Falsy(v) == v.t = "undefined" \/ v.t = "null" \/ (v.t = "string" /\ v.s = "")

----------------------------------------------------------------------------
(* Tickets and the JSON text of the file. *)

NoTicket == [id |-> "", title |-> Undefined, description |-> Undefined, createdAt |-> ""]

\* the object literal of the create handler
newTicketSwapped(id, title, description, now) ==
    [id |-> id, title |-> description, description |-> title, createdAt |-> now]
newTicket(id, title, description, now) ==
    [id |-> id, title |-> title, description |-> description, createdAt |-> now]

Open == [k |-> "[", v |-> NoTicket]
Close == [k |-> "]", v |-> NoTicket]
Obj(t) == [k |-> "{}", v |-> t]

\* JSON.stringify of an array of tickets: "[", one object per ticket, "]"
JSONstringify(tickets) ==
    <<Open>> \o [i \in 1..Len(tickets) |-> Obj(tickets[i])] \o <<Close>>

\* the texts JSON.parse accepts
WellFormed(text) ==
    /\ Len(text) >= 2
    /\ text[1].k = "["
    /\ text[Len(text)].k = "]"
    /\ \A i \in 2..(Len(text) - 1) : text[i].k = "{}"

\* JSON.parse of an accepted text
JSONparse(text) == [i \in 1..(Len(text) - 2) |-> text[i + 1].v]

\* what an interrupted write can leave behind: a proper prefix of the text
ProperPrefixes(text) == {SubSeq(text, 1, k) : k \in 0..(Len(text) - 1)}

----------------------------------------------------------------------------
(* fs calls on tickets.json.  A call's result is a record; `threw` tells    *)
(* whether it raised.                                                       *)

DiskStates == {"ok", "unreadable", "unwritable"}

\* fs.readFileSync(ticketsFile, "utf-8")
readFileSync(d, exists, data) ==
    IF d = "unreadable" \/ ~exists
    THEN [threw |-> TRUE, text |-> <<>>]
    ELSE [threw |-> FALSE, text |-> data]

\* fs.writeFileSync(ticketsFile, text): opens with truncation, then writes.
\* On unwritable storage it throws: either the open fails (read-only medium,
\* no permission) and the file is as it was, or the open has truncated the file
\* and the write fails (no space left) after part of the text.  The set of
\* possible results.
writeFileSync(d, exists, data, text) ==
    IF d = "unwritable"
    THEN {[threw |-> TRUE, exists |-> exists, data |-> data]}
         \cup {[threw |-> TRUE, exists |-> TRUE, data |-> p] : p \in ProperPrefixes(text)}
    ELSE {[threw |-> FALSE, exists |-> TRUE, data |-> text]}

\* readTickets: a throw of readFileSync or of JSON.parse is caught, logged with
\* console.error, and answered with []
readTicketsSilent(d, exists, data) ==
    LET r == readFileSync(d, exists, data)
    IN  IF r.threw \/ ~WellFormed(r.text)
        THEN [tickets |-> <<>>, logged |-> FALSE]
        ELSE [tickets |-> JSONparse(r.text), logged |-> FALSE]
readTickets(d, exists, data) ==
    LET r == readFileSync(d, exists, data)
    IN  IF r.threw \/ ~WellFormed(r.text)
        THEN [tickets |-> <<>>, logged |-> TRUE]
        ELSE [tickets |-> JSONparse(r.text), logged |-> FALSE]

\* writeTickets: the catch logs and returns normally
writeTickets(d, exists, data, tickets) ==
    {[exists |-> w.exists, data |-> w.data, logged |-> w.threw] :
        w \in writeFileSync(d, exists, data, JSONstringify(tickets))}

\* initializeTicketsFile: the write is outside any try, so a throw ends the process
initializeTicketsFileOverwrite(d, exists, data) ==
    {[exists |-> w.exists, data |-> w.data, threw |-> w.threw, wrote |-> TRUE] :
        w \in writeFileSync(d, exists, data, JSONstringify(<<>>))}
initializeTicketsFile(d, exists, data) ==
    IF ~exists
    THEN {[exists |-> w.exists, data |-> w.data, threw |-> w.threw, wrote |-> TRUE] :
            w \in writeFileSync(d, exists, data, JSONstringify(<<>>))}
    ELSE {[exists |-> exists, data |-> data, threw |-> FALSE, wrote |-> FALSE]}

----------------------------------------------------------------------------
(* Requests and responses. *)

PostRequest(title, description) ==
    [method |-> "POST", path |-> "/tickets", title |-> title, description |-> description]
ListRequest ==
    [method |-> "GET", path |-> "/tickets", title |-> Undefined, description |-> Undefined]
HealthRequest ==
    [method |-> "GET", path |-> "/health", title |-> Undefined, description |-> Undefined]
NoRequest ==
    [method |-> "", path |-> "", title |-> Undefined, description |-> Undefined]

PostRequests == {PostRequest(t, d) : t \in TitleValues, d \in DescriptionValues}
Requests == PostRequests \cup {ListRequest, HealthRequest}

IsPost(req) == req.method = "POST" /\ req.path = "/tickets"

\* what a step that answers nothing leaves in `last`
Quiet(event) ==
    [event |-> event, req |-> NoRequest, status |-> 0, text |-> "", ticket |-> NoTicket,
     list |-> <<>>, calls |-> <<>>, logs |-> <<>>]

\* the console.error lines of a handler, in order
ReadError == "Error reading tickets:"
WriteError == "Error writing tickets:"
Logs(readLogged, writeLogged) ==
    (IF readLogged THEN <<ReadError>> ELSE <<>>) \o (IF writeLogged THEN <<WriteError>> ELSE <<>>)

\* tickets.push(newTicket)
pushReplace(tickets, t) == <<t>>
push(tickets, t) == Append(tickets, t)

\* app.post("/tickets"): the outcomes of the handler for a body, an id drawn by
\* uuidv4() and an instant read by new Date()
postTickets(req, id, now, d, exists, data) ==
    IF Falsy(req.title) \/ Falsy(req.description)
    THEN {[status |-> 400, text |-> "Title and description are required fields",
           ticket |-> NoTicket, list |-> <<>>, calls |-> <<>>, logs |-> <<>>,
           exists |-> exists, data |-> data]}
    ELSE LET t == newTicket(id, req.title, req.description, now)
             r == readTickets(d, exists, data)
             tickets == push(r.tickets, t)
         IN  {[status |-> 201, text |-> "", ticket |-> t, list |-> <<>>,
               calls |-> <<"readFileSync", "writeFileSync">>,
               logs |-> Logs(r.logged, w.logged),
               exists |-> w.exists, data |-> w.data] :
                 w \in writeTickets(d, exists, data, tickets)}

\* app.get("/tickets")
getTickets(d, exists, data) ==
    LET r == readTickets(d, exists, data)
    IN  [status |-> 200, text |-> "", ticket |-> NoTicket, list |-> r.tickets,
         calls |-> <<"readFileSync">>, logs |-> Logs(r.logged, FALSE),
         exists |-> exists, data |-> data]

\* app.get("/health")
getHealthProbing(d, exists, data) ==
    LET r == readTickets(d, exists, data)
    IN  [status |-> IF r.logged THEN 503 ELSE 200, text |-> IF r.logged THEN "DOWN" ELSE "OK",
         ticket |-> NoTicket, list |-> <<>>, calls |-> <<"readFileSync">>, logs |-> <<>>,
         exists |-> exists, data |-> data]
getHealth(d, exists, data) ==
    [status |-> 200, text |-> "OK", ticket |-> NoTicket, list |-> <<>>,
     calls |-> <<>>, logs |-> <<>>, exists |-> exists, data |-> data]

Answered(req, o) ==
    [event |-> "handle", req |-> req, status |-> o.status, text |-> o.text,
     ticket |-> o.ticket, list |-> o.list, calls |-> o.calls, logs |-> o.logs]

----------------------------------------------------------------------------
(* The state machine. *)

Init ==
    /\ up = FALSE
    /\ disk = "ok"
    /\ fileExists = FALSE
    /\ fileData = <<>>
    /\ inflight = {}
    /\ acked = <<>>
    /\ last = Quiet("none")

PendingCreates == {r \in inflight : IsPost(r) /\ ~Falsy(r.title) /\ ~Falsy(r.description)}

\* node index.js: initializeTicketsFile(), then app.listen
Start ==
    /\ ~up
    /\ \E o \in initializeTicketsFile(disk, fileExists, fileData) :
        /\ fileExists' = o.exists
        /\ fileData' = o.data
        /\ up' = ~o.threw
        /\ last' = [Quiet("boot") EXCEPT
                      !.calls = IF o.wrote THEN <<"existsSync", "writeFileSync">>
                                ELSE <<"existsSync">>]
    /\ UNCHANGED <<disk, inflight, acked>>

\* the process is stopped between two handlers; its connections are dropped
Exit ==
    /\ up
    /\ up' = FALSE
    /\ inflight' = {}
    /\ last' = Quiet("exit")
    /\ UNCHANGED <<disk, fileExists, fileData, acked>>

\* a client's request reaches the server
Send(req) ==
    /\ up
    /\ req \notin inflight
    /\ Cardinality(inflight) < MaxInflight
    /\ (IsPost(req) /\ ~Falsy(req.title) /\ ~Falsy(req.description))
          => Len(acked) + Cardinality(PendingCreates) < MaxTickets
    /\ inflight' = inflight \cup {req}
    /\ last' = Quiet("send")
    /\ UNCHANGED <<up, disk, fileExists, fileData, acked>>

\* the event loop runs the POST /tickets handler on a waiting request
PostTickets(req) ==
    /\ up
    /\ req \in inflight
    /\ IsPost(req)
    /\ \E id \in UUIDs, now \in Instants :
         \E o \in postTickets(req, id, now, disk, fileExists, fileData) :
            /\ fileExists' = o.exists
            /\ fileData' = o.data
            /\ acked' = IF o.status = 201 THEN Append(acked, o.ticket) ELSE acked
            /\ last' = Answered(req, o)
    /\ inflight' = inflight \ {req}
    /\ UNCHANGED <<up, disk>>

\* the event loop runs the GET /tickets handler
GetTickets ==
    /\ up
    /\ ListRequest \in inflight
    /\ LET o == getTickets(disk, fileExists, fileData)
       IN  /\ fileExists' = o.exists
           /\ fileData' = o.data
           /\ last' = Answered(ListRequest, o)
    /\ inflight' = inflight \ {ListRequest}
    /\ UNCHANGED <<up, disk, acked>>

\* the event loop runs the GET /health handler
GetHealth ==
    /\ up
    /\ HealthRequest \in inflight
    /\ LET o == getHealth(disk, fileExists, fileData)
       IN  /\ fileExists' = o.exists
           /\ fileData' = o.data
           /\ last' = Answered(HealthRequest, o)
    /\ inflight' = inflight \ {HealthRequest}
    /\ UNCHANGED <<up, disk, acked>>

\* the process dies inside the create handler's fs.writeFileSync, after the
\* truncating open and part of the new text; no response is sent
PostTicketsKilled(req) ==
    /\ up
    /\ req \in PendingCreates
    /\ disk # "unwritable"
    /\ \E id \in UUIDs, now \in Instants :
         LET t == newTicket(id, req.title, req.description, now)
             r == readTickets(disk, fileExists, fileData)
             text == JSONstringify(push(r.tickets, t))
         IN  \E p \in ProperPrefixes(text) :
               /\ fileData' = p
               /\ fileExists' = TRUE
               /\ last' = [Quiet("killed") EXCEPT
                             !.req = req,
                             !.calls = <<"readFileSync", "writeFileSync">>,
                             !.logs = Logs(r.logged, FALSE)]
    /\ up' = FALSE
    /\ inflight' = {}
    /\ UNCHANGED <<disk, acked>>

\* a client's request reaches a server that has nothing else waiting
SendAlone(req) ==
    /\ inflight = {}
    /\ Send(req)

\* the storage changes condition
SetDisk(d) ==
    /\ d # disk
    /\ disk' = d
    /\ last' = Quiet("disk")
    /\ UNCHANGED <<up, fileExists, fileData, inflight, acked>>

\* the service on storage that can fail and a process that can die mid-write;
\* clients send one request at a time (handlers run to completion, so what a
\* fault does to a handler does not depend on what else is waiting)
Next ==
    \/ Start
    \/ Exit
    \/ \E req \in Requests : SendAlone(req)
    \/ \E req \in PostRequests : PostTickets(req)
    \/ GetTickets
    \/ GetHealth
    \/ \E req \in PostRequests : PostTicketsKilled(req)
    \/ \E d \in DiskStates : SetDisk(d)

Spec == Init /\ [][Next]_vars

\* the service on storage whose calls all succeed, with restarts between handlers
NextNoFault ==
    \/ Start
    \/ Exit
    \/ \E req \in Requests : Send(req)
    \/ \E req \in PostRequests : PostTickets(req)
    \/ GetTickets
    \/ GetHealth

SpecNoFault == Init /\ [][NextNoFault]_vars

----------------------------------------------------------------------------
(* Vocabulary of the properties. *)

\* the body GET /tickets answers with in the current state
ListAll == getTickets(disk, fileExists, fileData).list

\* the collection tickets.json holds, whatever the disk lets through
Persisted == IF fileExists /\ WellFormed(fileData) THEN JSONparse(fileData) ELSE <<>>

IsPrefix(s, t) == Len(s) <= Len(t) /\ SubSeq(t, 1, Len(s)) = s
Range(s) == {s[i] : i \in 1..Len(s)}

\* a field that is missing, null or the empty string
Absent(v) == v = Undefined \/ v = Null \/ v = Str("")
\* a field that is a non-empty text
NonEmpty(v) == v.t = "string" /\ v.s # ""

FileUnchanged == fileExists' = fileExists /\ fileData' = fileData

\* the step just taken ran a handler on req-like requests
Handled(l) == l.event = "handle"

----------------------------------------------------------------------------
(* C1 *)

\* C1: a POST /tickets whose title or description is missing, null or "" is
\* answered 400 with an error message; the handler makes no fs call and
\* tickets.json is after the request what it was before.
C1_ValidationRejects ==
    [][(Handled(last') /\ IsPost(last'.req)
          /\ (Absent(last'.req.title) \/ Absent(last'.req.description)))
        => /\ last'.status = 400
           /\ last'.text # ""
           /\ last'.ticket = NoTicket
           /\ last'.calls = <<>>
           /\ FileUnchanged
           /\ acked' = acked]_vars

C1_Witness ==
    /\ Handled(last)
    /\ last.status = 400
    /\ last.req.title = Null
    /\ NonEmpty(last.req.description)
    /\ Len(Persisted) >= 1

----------------------------------------------------------------------------
(* C8 *)

\* C8: GET /health answers 200 with status "OK" whatever the state of the
\* store, and makes no fs call: tickets.json is neither read nor written.
C8_HealthIndependent ==
    [][(Handled(last') /\ last'.req = HealthRequest)
        => /\ last'.status = 200
           /\ last'.text = "OK"
           /\ last'.calls = <<>>
           /\ last'.logs = <<>>
           /\ FileUnchanged]_vars

C8_Witness ==
    /\ Handled(last)
    /\ last.req = HealthRequest
    /\ last.status = 200
    /\ disk = "unreadable"
    /\ fileExists
    /\ ~WellFormed(fileData)

----------------------------------------------------------------------------
(* C10 *)

\* C10: when tickets.json cannot be read or does not parse, GET /tickets logs
\* the read error, answers 200 with [], leaves the file as it is and leaves
\* the process running.
C10_ListDegrades ==
    [][(Handled(last') /\ last'.req = ListRequest
          /\ (disk = "unreadable" \/ ~fileExists \/ ~WellFormed(fileData)))
        => /\ last'.status = 200
           /\ last'.list = <<>>
           /\ last'.logs = <<ReadError>>
           /\ FileUnchanged
           /\ up']_vars

C10_Witness ==
    /\ Handled(last)
    /\ last.req = ListRequest
    /\ last.status = 200
    /\ last.list = <<>>
    /\ last.logs = <<ReadError>>
    /\ Len(acked) >= 1
    /\ ~WellFormed(fileData)
    /\ up

----------------------------------------------------------------------------
(* C2 *)

\* C2: valid creates with distinct titles that wait at the server together
\* are all answered 201 in whatever order the event loop takes them, and the
\* list then holds one ticket per answered create, every answered ticket
\* among them: no create's read-then-write drops another's ticket.
C2_NoLostUpdate ==
    /\ Len(ListAll) = Len(acked)
    /\ \A i \in 1..Len(acked) :
          \E j \in 1..Len(ListAll) :
             /\ ListAll[j] = acked[i]
             /\ ListAll[j].title = acked[i].title
    /\ (Handled(last) /\ IsPost(last.req)
          /\ NonEmpty(last.req.title) /\ NonEmpty(last.req.description))
        => last.status = 201

\* a create is still waiting while a create with another title, which waited
\* together with it, has been answered 201 and is listed
C2_Witness ==
    /\ Handled(last)
    /\ last.status = 201
    /\ last.req.title = Str("b")
    /\ ListAll = <<last.ticket>>
    /\ PostRequest(Str("a"), Str("d")) \in inflight

----------------------------------------------------------------------------
(* C3 *)

\* C3: a POST /tickets with a non-empty title and a non-empty description is
\* answered 201 with a ticket that carries exactly that title and description
\* and a populated id and createdAt, and a list issued right after returns
\* the list of before followed by that ticket.
C3_CreateAppends ==
    [][(Handled(last') /\ IsPost(last'.req)
          /\ NonEmpty(last'.req.title) /\ NonEmpty(last'.req.description))
        => /\ last'.status = 201
           /\ last'.ticket.title = last'.req.title
           /\ last'.ticket.description = last'.req.description
           /\ last'.ticket.id # ""
           /\ last'.ticket.createdAt # ""
           /\ ListAll' = Append(ListAll, last'.ticket)]_vars

C3_Witness ==
    /\ Handled(last)
    /\ last.status = 201
    /\ last.ticket.title = Str("b")
    /\ Len(ListAll) = 2
    /\ ListAll[2] = last.ticket
    /\ ListAll[1].title = Str("a")

----------------------------------------------------------------------------
(* C6 *)

\* C6: initializeTicketsFile writes an empty collection only when tickets.json
\* does not exist and otherwise leaves it as it is; running it again changes
\* nothing more; so after a restart the list is exactly the tickets answered
\* 201 before it, in the same order.
C6_InitializePreserves ==
    [][/\ \A o \in initializeTicketsFile(disk, fileExists, fileData) :
            \A again \in initializeTicketsFile(disk, o.exists, o.data) :
               again.exists = o.exists /\ again.data = o.data /\ ~again.wrote
       /\ (~up /\ up')
            => /\ fileExists'
               /\ fileData' = IF fileExists THEN fileData ELSE JSONstringify(<<>>)
               /\ ListAll' = acked]_vars

C6_Witness ==
    /\ last.event = "boot"
    /\ up
    /\ Len(acked) = 2
    /\ acked[1] # acked[2]
    /\ ListAll = acked

----------------------------------------------------------------------------
(* C7 *)

\* C7: a 201 is sent only once the collection with the new ticket is in
\* tickets.json, and a create whose write failed is not answered 201.
C7_AckedIsPersisted ==
    (Handled(last) /\ last.status = 201)
        => /\ last.ticket \in Range(Persisted)
           /\ WriteError \notin Range(last.logs)

----------------------------------------------------------------------------
(* C4 *)

\* C4: the persisted collection only grows at its end: what tickets.json
\* holds before any step is a prefix of what it holds after it.
C4_InsertOnly == [][IsPrefix(Persisted, Persisted')]_vars

----------------------------------------------------------------------------
(* C9 *)

\* C9: every change of tickets.json puts a complete collection in place of
\* the previous one, and every read of the file, by a handler or after a
\* restart, gets a complete collection.
C9_AtomicReplace ==
    [][/\ ~FileUnchanged => WellFormed(fileData')
       /\ (\E i \in 1..Len(last'.calls) : last'.calls[i] = "readFileSync")
            /\ readFileSync(disk, fileExists, fileData).threw = FALSE
          => WellFormed(fileData)]_vars

====
